---------------------------- MODULE Spec2Model ----------------------------
(***************************************************************************)
(* Model of cc/algorithms/algorithm.h: the Algorithm<T> base class (privacy *)
(* budget accounting around the subtype hooks) and AlgorithmBuilder         *)
(* (parameter validation in front of the subtype factory hook).             *)
(*                                                                          *)
(* All calls are synchronous and single-threaded, so every public method    *)
(* is one atomic action.                                                    *)
(***************************************************************************)
EXTENDS Integers, Sequences, FiniteSets

(***************************************************************************)
(* C++ double.  A finite double is kept as the integer val with real value  *)
(* val / 2^ScaleBits; the representable ones have at most MantBits          *)
(* significant bits.  Arithmetic rounds to nearest, ties to even, as IEEE   *)
(* 754 does.  The format is a scaled-down binary64: 2^-ScaleBits plays the  *)
(* part of the smallest subnormal, and the exponent range above 1.0 is not  *)
(* limited because no value used here exceeds 2.0.                          *)
(***************************************************************************)
MantBits == 3

ScaleBits == 4

RECURSIVE Pow2(_)
Pow2(n) == IF n = 0 THEN 1 ELSE 2 * Pow2(n - 1)

\* The spacing (in units of 2^-ScaleBits) of the doubles around a magnitude
\* whose integer part is q: 1 below 2^MantBits, doubling with each binade.
RECURSIVE Ulp(_)
Ulp(q) == IF q < Pow2(MantBits) THEN 1 ELSE 2 * Ulp(q \div 2)

\* The exact rational num/den (den > 0), in units of 2^-ScaleBits, rounded to
\* the nearest representable magnitude; a tie goes to the even mantissa.
RoundMagnitude(num, den) ==
    LET u    == Ulp(num \div den)
        q    == num \div (den * u)
        r    == num % (den * u)
        up   == (2 * r > den * u) \/ (2 * r = den * u /\ q % 2 = 1)
    IN  (IF up THEN q + 1 ELSE q) * u

RoundNearestEven(num, den) ==
    IF num < 0 THEN -RoundMagnitude(-num, den) ELSE RoundMagnitude(num, den)

Finite(n) == [cls |-> "finite", val |-> n]

NaN == [cls |-> "nan", val |-> 0]

PosInf == [cls |-> "inf", val |-> 1]

NegInf == [cls |-> "inf", val |-> -1]

\* A decimal literal of the source (0.5, 0.6, 1.0, ...) as the compiler
\* converts it: the nearest double.
Literal(num, den) == Finite(RoundNearestEven(num * Pow2(ScaleBits), den))

Zero == Literal(0, 1)

\* IEEE comparison a < b: false whenever an operand is NaN.
Less(a, b) ==
    CASE a.cls = "nan" \/ b.cls = "nan"        -> FALSE
      [] a.cls = "finite" /\ b.cls = "finite"  -> a.val < b.val
      [] a.cls = "inf" /\ b.cls = "inf"        -> a.val < b.val
      [] a.cls = "inf"                         -> a.val < 0
      [] OTHER                                 -> b.val > 0

\* IEEE subtraction a - b, rounded to nearest even.
Minus(a, b) ==
    CASE a.cls = "nan" \/ b.cls = "nan"        -> NaN
      [] a.cls = "finite" /\ b.cls = "finite"  ->
             Finite(RoundNearestEven(a.val - b.val, 1))
      [] a.cls = "inf" /\ b.cls = "inf"        ->
             IF a.val = b.val THEN NaN ELSE a
      [] a.cls = "inf"                         -> a
      [] OTHER                                 -> [cls |-> "inf", val |-> -b.val]

\* std::max(a, b) is (a < b) ? b : a, so std::max(0.0, NaN) is 0.0.
StdMax(a, b) == IF Less(a, b) THEN b ELSE a


(***************************************************************************)
(* Algorithm<T>                                                             *)
(***************************************************************************)
\* Largest number of entries one instance is fed between two resets.
MaxEntries == 2

\* Entry values (the template parameter T): two distinct ones, so that order
\* and identity of entries are visible.
EntryValues == {1, 2}

RECURSIVE SeqsUpTo(_)
SeqsUpTo(n) ==
    IF n = 0 THEN {<< >>}
    ELSE LET shorter == SeqsUpTo(n - 1)
         IN  shorter \cup {Append(s, x) : s \in {t \in shorter : Len(t) = n - 1},
                                          x \in EntryValues}

kFullPrivacyBudget == Literal(1, 1)

\* Confidence levels are only handed through to the hook, never computed
\* with: they are kept in percent.
kDefaultConfidenceLevel == 95

\* The level a caller passes to the two-argument PartialResult.
NoiseIntervalLevels == {50}

\* The doubles a caller passes as a budget fraction: every double in
\* [0, 1] (0.5 and 0.6 among them), the first double above 1.0, the largest
\* negative double, -1.0, NaN and the infinities.
IsDouble(n) == RoundNearestEven(n, 1) = n

UnitDoubles == {Finite(n) : n \in {m \in 0..Pow2(ScaleBits) : IsDouble(m)}}

BudgetArguments ==
    UnitDoubles \cup
    { Finite(Pow2(ScaleBits) + Ulp(Pow2(ScaleBits))), Finite(-1), Literal(-1, 1),
      NaN, PosInf, NegInf }

\* absl::Status / base::StatusOr<V>: the code, which check produced an error
\* ("none" on success) and the value carried on success.
NoValue == [cls |-> "none", val |-> 0]

OkStatus(v) == [code |-> "OK", why |-> "none", value |-> v]

InvalidArgumentError(why) ==
    [code |-> "InvalidArgument", why |-> why, value |-> NoValue]

\* What a subtype hook may answer: success or a failure of its own.
HookOutcomes == {"OK", "Internal"}

\* The epsilon the instance is constructed with: Algorithm(0.5).
ConstructionEpsilon == Literal(5, 10)

VARIABLES
    algorithm_epsilon_,  \* Algorithm's const double epsilon_
    algorithm_delta_,    \* Algorithm's const double delta_
    remaining_privacy_budget_fraction_,  \* Algorithm's only mutable field
    entries,      \* arguments of the AddEntry calls since the last ResetState
    lastCall,     \* the public method called last; "none" after construction
    lastItems,    \* the sequence [begin, end) the last call was given, if any
    returned,     \* what the last public call returned
    hookCalls,    \* the hook invocations the last public call made, in order
    released,     \* exact sum, in units of 2^-ScaleBits, of the budget
                  \* fractions the instance has given out since construction
                  \* or the last Reset: those passed to GenerateResult and
                  \* those returned by a direct ConsumePrivacyBudget call
    scenario      \* progress of PartialResult(0.5), (0.6), (0.5) on a fresh
                  \* instance that holds entries; 0 when not in that sequence

parameterVars == << algorithm_epsilon_, algorithm_delta_ >>

algVars == << parameterVars, remaining_privacy_budget_fraction_, entries,
              lastCall, lastItems, returned, hookCalls, released, scenario >>

\* GetEpsilon() and GetDelta() of the instance.
GetEpsilon == algorithm_epsilon_

GetDelta == algorithm_delta_

\* RemainingPrivacyBudget() on an instance whose remaining fraction is rem.
RemainingPrivacyBudget(rem) == rem

\* One recorded hook invocation.
HookAddEntry(t) == [hook |-> "AddEntry", entry |-> t, budget |-> NoValue,
                    level |-> 0, seen |-> << >>]

HookResetState == [hook |-> "ResetState", entry |-> 0, budget |-> NoValue,
                   level |-> 0, seen |-> << >>]

\* seen: the AddEntry arguments since the last ResetState, which is all the
\* input GenerateResult is to run on.
HookGenerateResult(privacy_budget, noise_interval_level, seen) ==
    [hook |-> "GenerateResult", entry |-> 0, budget |-> privacy_budget,
     level |-> noise_interval_level, seen |-> seen]

\* The pure virtual GenerateResult: whatever the subtype does, it answers
\* from its arguments and the entries it holds, or fails.
GenerateResult(privacy_budget, noise_interval_level, seen, outcome) ==
    IF outcome = "OK"
    THEN OkStatus([cls |-> "output", val |-> 0, budget |-> privacy_budget,
                   level |-> noise_interval_level, seen |-> seen])
    ELSE [code |-> outcome, why |-> "hook", value |-> NoValue]

\* Faulty variants of ConsumePrivacyBudget.
\* std::max's arguments swapped: std::max(NaN, 0.0) is NaN.
ConsumePrivacyBudget_MaxSwapped(rem, privacy_budget_fraction) ==
    IF Less(privacy_budget_fraction, Zero)
    THEN [rem |-> rem, ret |-> InvalidArgumentError("negative")]
    ELSE IF Less(rem, privacy_budget_fraction)
    THEN [rem |-> rem, ret |-> InvalidArgumentError("exceeds")]
    ELSE LET new == StdMax(Minus(rem, privacy_budget_fraction), Zero)
         IN  [rem |-> new, ret |-> OkStatus(Minus(rem, new))]

\* The requested fraction returned instead of the difference.
ConsumePrivacyBudget_ReturnsRequest(rem, privacy_budget_fraction) ==
    IF Less(privacy_budget_fraction, Zero)
    THEN [rem |-> rem, ret |-> InvalidArgumentError("negative")]
    ELSE IF Less(rem, privacy_budget_fraction)
    THEN [rem |-> rem, ret |-> InvalidArgumentError("exceeds")]
    ELSE [rem |-> StdMax(Zero, Minus(rem, privacy_budget_fraction)),
          ret |-> OkStatus(privacy_budget_fraction)]

\* A rejected request drains the budget: the floor is applied before the
\* check.
ConsumePrivacyBudget_RejectionDrains(rem, privacy_budget_fraction) ==
    IF Less(privacy_budget_fraction, Zero)
    THEN [rem |-> rem, ret |-> InvalidArgumentError("negative")]
    ELSE IF Less(rem, privacy_budget_fraction)
    THEN [rem |-> Zero, ret |-> InvalidArgumentError("exceeds")]
    ELSE LET new == StdMax(Zero, Minus(rem, privacy_budget_fraction))
         IN  [rem |-> new, ret |-> OkStatus(Minus(rem, new))]

\* <= in place of <: a request for exactly the remaining fraction is
\* rejected.
ConsumePrivacyBudget_RejectsEqual(rem, privacy_budget_fraction) ==
    IF Less(privacy_budget_fraction, Zero)
    THEN [rem |-> rem, ret |-> InvalidArgumentError("negative")]
    ELSE IF Less(rem, privacy_budget_fraction) \/ rem = privacy_budget_fraction
    THEN [rem |-> rem, ret |-> InvalidArgumentError("exceeds")]
    ELSE LET new == StdMax(Zero, Minus(rem, privacy_budget_fraction))
         IN  [rem |-> new, ret |-> OkStatus(Minus(rem, new))]

\* The check against the remaining fraction left out.
ConsumePrivacyBudget_NoRemainingCheck(rem, privacy_budget_fraction) ==
    IF Less(privacy_budget_fraction, Zero)
    THEN [rem |-> rem, ret |-> InvalidArgumentError("negative")]
    ELSE LET new == StdMax(Zero, Minus(rem, privacy_budget_fraction))
         IN  [rem |-> new, ret |-> OkStatus(Minus(rem, new))]

\* ConsumePrivacyBudget on an instance whose remaining fraction is rem:
\* the new remaining fraction and the StatusOr<double> returned.
ConsumePrivacyBudget(rem, privacy_budget_fraction) ==
    IF Less(privacy_budget_fraction, Zero)
    THEN [rem |-> rem, ret |-> InvalidArgumentError("negative")]
    ELSE IF Less(rem, privacy_budget_fraction)
    THEN [rem |-> rem, ret |-> InvalidArgumentError("exceeds")]
    ELSE LET old_budget_fraction == rem
             new == StdMax(Zero, Minus(rem, privacy_budget_fraction))
         IN  [rem |-> new, ret |-> OkStatus(Minus(old_budget_fraction, new))]

\* A faulty PartialResult(privacy_budget, noise_interval_level) that hands the
\* hook the default level.
PartialResult2_DefaultLevel(rem, seen, privacy_budget, noise_interval_level, outcome) ==
    LET consumed == ConsumePrivacyBudget(rem, privacy_budget)
    IN  IF consumed.ret.code # "OK"
        THEN [rem |-> consumed.rem, ret |-> consumed.ret, calls |-> << >>]
        ELSE [rem   |-> consumed.rem,
              ret   |-> GenerateResult(consumed.ret.value, kDefaultConfidenceLevel,
                                       seen, outcome),
              calls |-> << HookGenerateResult(consumed.ret.value,
                                              kDefaultConfidenceLevel, seen) >>]

\* A faulty PartialResult that gives the budget back when the hook fails.
PartialResult1_RestoresOnFailure(rem, seen, privacy_budget, outcome) ==
    LET consumed == ConsumePrivacyBudget(rem, privacy_budget)
        result   == GenerateResult(consumed.ret.value, kDefaultConfidenceLevel,
                                   seen, outcome)
    IN  IF consumed.ret.code # "OK"
        THEN [rem |-> consumed.rem, ret |-> consumed.ret, calls |-> << >>]
        ELSE [rem   |-> IF result.code = "OK" THEN consumed.rem ELSE rem,
              ret   |-> result,
              calls |-> << HookGenerateResult(consumed.ret.value,
                                              kDefaultConfidenceLevel, seen) >>]

\* PartialResult(privacy_budget) on an instance with remaining fraction rem
\* whose subtype holds the entries seen: consume, then GenerateResult with
\* what was consumed and the default level.
PartialResult1(rem, seen, privacy_budget, outcome) ==
    LET consumed == ConsumePrivacyBudget(rem, privacy_budget)
    IN  IF consumed.ret.code # "OK"
        THEN [rem |-> consumed.rem, ret |-> consumed.ret, calls |-> << >>]
        ELSE [rem   |-> consumed.rem,
              ret   |-> GenerateResult(consumed.ret.value, kDefaultConfidenceLevel,
                                       seen, outcome),
              calls |-> << HookGenerateResult(consumed.ret.value,
                                              kDefaultConfidenceLevel, seen) >>]

\* PartialResult(privacy_budget, noise_interval_level).
PartialResult2(rem, seen, privacy_budget, noise_interval_level, outcome) ==
    LET consumed == ConsumePrivacyBudget(rem, privacy_budget)
    IN  IF consumed.ret.code # "OK"
        THEN [rem |-> consumed.rem, ret |-> consumed.ret, calls |-> << >>]
        ELSE [rem   |-> consumed.rem,
              ret   |-> GenerateResult(consumed.ret.value, noise_interval_level,
                                       seen, outcome),
              calls |-> << HookGenerateResult(consumed.ret.value,
                                              noise_interval_level, seen) >>]

\* PartialResult(): PartialResult(RemainingPrivacyBudget()).
PartialResult0(rem, seen, outcome) ==
    PartialResult1(rem, seen, RemainingPrivacyBudget(rem), outcome)

\* The pure virtual AddEntry: the subtype folds t into its state.
AddEntry(seen, t) == [seen |-> Append(seen, t), calls |-> << HookAddEntry(t) >>]

\* A faulty AddEntries that walks the range from its end to its beginning.
RECURSIVE AddEntries_Backwards(_, _)
AddEntries_Backwards(seen, items) ==
    IF items = << >>
    THEN [seen |-> seen, calls |-> << >>]
    ELSE LET n     == Len(items)
             first == AddEntry(seen, items[n])
             rest  == AddEntries_Backwards(first.seen, SubSeq(items, 1, n - 1))
         IN  [seen |-> rest.seen, calls |-> first.calls \o rest.calls]

\* AddEntries(begin, end): one AddEntry per element, in iteration order.
RECURSIVE AddEntries(_, _)
AddEntries(seen, items) ==
    IF items = << >>
    THEN [seen |-> seen, calls |-> << >>]
    ELSE LET first == AddEntry(seen, Head(items))
             rest  == AddEntries(first.seen, Tail(items))
         IN  [seen |-> rest.seen, calls |-> first.calls \o rest.calls]

\* A faulty Reset that forgets the subtype's ResetState.
Reset_WithoutResetState(rem, seen) ==
    [rem |-> kFullPrivacyBudget, seen |-> seen, calls |-> << >>]

\* Reset() on an instance with remaining fraction rem and entries seen: full
\* budget, then the subtype's ResetState, after which the subtype holds no
\* input.
Reset(rem, seen) ==
    [rem |-> kFullPrivacyBudget, seen |-> << >>, calls |-> << HookResetState >>]

\* A faulty Result that does not reset first.
Result_WithoutReset(rem, seen, items, outcome) ==
    LET afterAdd == AddEntries(seen, items)
        partial  == PartialResult0(rem, afterAdd.seen, outcome)
    IN  [rem |-> partial.rem, seen |-> afterAdd.seen, ret |-> partial.ret,
         calls |-> afterAdd.calls \o partial.calls]

\* Result(begin, end) on an instance with remaining fraction rem and entries
\* seen: Reset(); AddEntries(begin, end); PartialResult().
Result(rem, seen, items, outcome) ==
    LET afterReset == Reset(rem, seen)
        afterAdd   == AddEntries(afterReset.seen, items)
        partial    == PartialResult0(afterReset.rem, afterAdd.seen, outcome)
    IN  [rem |-> partial.rem, seen |-> afterAdd.seen, ret |-> partial.ret,
         calls |-> afterReset.calls \o afterAdd.calls \o partial.calls]

\* The budget a StatusOr<double> gives its caller.
BudgetReturned(ret) ==
    IF ret.code = "OK" /\ ret.value.cls = "finite" THEN ret.value.val ELSE 0

\* The budgets handed to GenerateResult by a list of hook invocations.
RECURSIVE BudgetHanded(_)
BudgetHanded(calls) ==
    IF calls = << >> THEN 0
    ELSE (IF Head(calls).hook = "GenerateResult" /\ Head(calls).budget.cls = "finite"
          THEN Head(calls).budget.val ELSE 0) + BudgetHanded(Tail(calls))


(***************************************************************************)
(* AlgorithmBuilder<T, Algorithm, Builder>                                  *)
(***************************************************************************)
\* absl::nullopt.
Unset == [cls |-> "unset", val |-> 0]

\* An absl::optional<int> that holds n.
Some(n) == [cls |-> "int", val |-> n]

\* The helpers of algorithms/util.h, as the specification states them.
ValidateIsFiniteAndPositive(opt) ==
    IF opt.cls = "finite" /\ opt.val > 0
    THEN OkStatus(NoValue) ELSE InvalidArgumentError("Epsilon")

ValidateIsInInclusiveInterval(value, lower, upper, name) ==
    IF value.cls = "finite" /\ lower.val <= value.val /\ value.val <= upper.val
    THEN OkStatus(NoValue) ELSE InvalidArgumentError(name)

ValidateIsPositive(n, name) ==
    IF n > 0 THEN OkStatus(NoValue) ELSE InvalidArgumentError(name)

\* The library's default epsilon, ln(3).
DefaultEpsilon == Literal(10986, 10000)

\* The configuration of a NumericalMechanismBuilder; a fresh
\* LaplaceMechanism::Builder has nothing set.
LaplaceMechanismBuilder ==
    [epsilon |-> Unset, delta |-> Unset, l0 |-> Unset, linf |-> Unset]

\* The builders a caller hands to SetLaplaceMechanism: a fresh one, and one
\* the caller has configured beforehand.
MechanismBuilders ==
    { LaplaceMechanismBuilder,
      [epsilon |-> Literal(5, 10), delta |-> Literal(5, 10),
       l0 |-> Some(3), linf |-> Some(3)] }

\* NumericalMechanismBuilder objects live on the heap and are reached through
\* std::unique_ptr: heap maps an address to the configuration of the builder
\* stored there, or to Freed.  Three addresses are enough for the owned
\* builder, the one that replaces it and a clone local to a call.
Addresses == 1 .. 3

nullptr == 0

Freed ==
    LET gone == [cls |-> "freed", val |-> 0]
    IN  [epsilon |-> gone, delta |-> gone, l0 |-> gone, linf |-> gone]

\* operator new: the lowest free address.
NewAddress(objects) ==
    CHOOSE a \in Addresses :
        /\ objects[a] = Freed
        /\ \A b \in Addresses : objects[b] = Freed => a <= b

\* absl::make_unique: a new object with the given configuration.
MakeUnique(objects, configuration) ==
    LET q == NewAddress(objects)
    IN  [heap |-> [objects EXCEPT ![q] = configuration], ptr |-> q]

\* ~unique_ptr: the object is destroyed; nothing happens for nullptr.
Destroy(objects, p) ==
    IF p = nullptr THEN objects ELSE [objects EXCEPT ![p] = Freed]

\* NumericalMechanismBuilder::Clone: a new builder object, independently
\* owned, that starts with the configuration of the one at p.
Clone(objects, p) == MakeUnique(objects, objects[p])

\* NumericalMechanismBuilder::Build of the builder configured as
\* configuration: code outside this file, which succeeds or fails as it sees
\* fit.
MechanismBuild(configuration, mechanism_outcome) ==
    IF mechanism_outcome = "OK"
    THEN OkStatus([cls |-> "mechanism", val |-> 0])
    ELSE [code |-> mechanism_outcome, why |-> "mechanism", value |-> NoValue]

\* The values a caller passes to the setters.
EpsilonArguments ==
    { Zero, Finite(1), Literal(5, 10), Literal(-1, 1), PosInf, NegInf, NaN }

DeltaArguments ==
    { Finite(-1), Zero, Literal(5, 10), kFullPrivacyBudget,
      Finite(Pow2(ScaleBits) + Ulp(Pow2(ScaleBits))), NaN }

IntArguments == {-1, 0, 1, 2}

\* What the factory hook BuildAlgorithm does: whether it builds a mechanism
\* through UpdateAndBuildMechanism, what the mechanism builder answers then,
\* and what the hook answers.
FactoryBehaviours ==
    { b \in [mechanism : BOOLEAN, mechanismOutcome : HookOutcomes,
             outcome : HookOutcomes] :
        ~b.mechanism => b.mechanismOutcome = "OK" }

\* How a subtype configures a clone it got from GetMechanismBuilderClone.
SubtypeConfiguration ==
    [epsilon |-> Literal(1, 4), delta |-> Zero, l0 |-> Some(2), linf |-> Some(2)]

VARIABLES
    epsilon_,                          \* absl::optional<double>
    delta_,                            \* absl::optional<double>
    l0_sensitivity_,                   \* absl::optional<int>
    max_contributions_per_partition_,  \* absl::optional<int>
    mechanism_builder_,                \* address of the owned mechanism builder
    heap,            \* the NumericalMechanismBuilder objects
    buildReturned,   \* what the last Build returned; NoBuild after other calls
    factoryCalls,    \* BuildAlgorithm invocations of the last Build (0 or 1)
    builtMechanism,  \* configuration the mechanism builder had at the Build()
                     \* of the last UpdateAndBuildMechanism; Unset if none ran
    mechanismReturned, \* what the last UpdateAndBuildMechanism returned
    logged,          \* whether the last call logged the default-epsilon warning
    lastSetter,      \* the setter called last and its argument
    installedMechanism \* configuration the owned mechanism builder was given:
                     \* that of the last SetLaplaceMechanism argument, or of
                     \* the default LaplaceMechanism::Builder

builderVars == << epsilon_, delta_, l0_sensitivity_,
                  max_contributions_per_partition_, mechanism_builder_, heap,
                  buildReturned, factoryCalls, builtMechanism,
                  mechanismReturned, logged, lastSetter, installedMechanism >>

NoBuild == [code |-> "none", why |-> "none", value |-> NoValue]

NoSetter == [name |-> "none", arg |-> Unset]

\* A faulty UpdateAndBuildMechanism: the sensitivities are exchanged.
UpdateAndBuildMechanism_SwapsSensitivities(eps, del, l0, linf, mechanism_builder, objects, mechanism_outcome) ==
    LET cloned == Clone(objects, mechanism_builder)
        clone  == cloned.ptr
        h1     == IF eps.cls # "unset"
                  THEN [cloned.heap EXCEPT ![clone].epsilon = eps]
                  ELSE cloned.heap
        h2     == IF del.cls # "unset"
                  THEN [h1 EXCEPT ![clone].delta = del]
                  ELSE h1
        h3     == [h2 EXCEPT ![clone].l0 =
                                 IF linf.cls # "unset" THEN linf ELSE Some(1)]
        h4     == [h3 EXCEPT ![clone].linf =
                                 IF l0.cls # "unset" THEN l0 ELSE Some(1)]
    IN  [heap  |-> Destroy(h4, clone),
         ret   |-> MechanismBuild(h4[clone], mechanism_outcome),
         built |-> h4[clone]]

\* A faulty UpdateAndBuildMechanism: it configures the owned mechanism
\* builder itself instead of a clone.
UpdateAndBuildMechanism_ConfiguresOwned(eps, del, l0, linf, mechanism_builder, objects, mechanism_outcome) ==
    LET clone  == mechanism_builder
        h1     == IF eps.cls # "unset"
                  THEN [objects EXCEPT ![clone].epsilon = eps]
                  ELSE objects
        h2     == IF del.cls # "unset"
                  THEN [h1 EXCEPT ![clone].delta = del]
                  ELSE h1
        h3     == [h2 EXCEPT ![clone].l0 =
                                 IF l0.cls # "unset" THEN l0 ELSE Some(1)]
        h4     == [h3 EXCEPT ![clone].linf =
                                 IF linf.cls # "unset" THEN linf ELSE Some(1)]
    IN  [heap  |-> h4,
         ret   |-> MechanismBuild(h4[clone], mechanism_outcome),
         built |-> h4[clone]]

\* UpdateAndBuildMechanism on a builder with the given fields: the heap it
\* leaves (its clone is destroyed when the call returns), the status it
\* returns and the configuration of the clone at its Build().
UpdateAndBuildMechanism(eps, del, l0, linf, mechanism_builder, objects, mechanism_outcome) ==
    LET cloned == Clone(objects, mechanism_builder)
        clone  == cloned.ptr
        h1     == IF eps.cls # "unset"
                  THEN [cloned.heap EXCEPT ![clone].epsilon = eps]
                  ELSE cloned.heap
        h2     == IF del.cls # "unset"
                  THEN [h1 EXCEPT ![clone].delta = del]
                  ELSE h1
        h3     == [h2 EXCEPT ![clone].l0 =
                                 IF l0.cls # "unset" THEN l0 ELSE Some(1)]
        h4     == [h3 EXCEPT ![clone].linf =
                                 IF linf.cls # "unset" THEN linf ELSE Some(1)]
    IN  [heap  |-> Destroy(h4, clone),
         ret   |-> MechanismBuild(h4[clone], mechanism_outcome),
         built |-> h4[clone]]

\* GetMechanismBuilderClone: the heap with the clone in it and the clone's
\* address, which the caller owns.
GetMechanismBuilderClone(mechanism_builder, objects) ==
    Clone(objects, mechanism_builder)

\* The pure virtual BuildAlgorithm: the subtype's factory.
BuildAlgorithm(eps, del, l0, linf, mechanism_builder, objects, behaviour) ==
    LET mech == UpdateAndBuildMechanism(eps, del, l0, linf, mechanism_builder,
                                        objects, behaviour.mechanismOutcome)
    IN  [ret          |-> IF behaviour.outcome = "OK"
                          THEN OkStatus([cls |-> "algorithm", val |-> 0])
                          ELSE [code |-> behaviour.outcome, why |-> "factory",
                                value |-> NoValue],
         mechanism    |-> IF behaviour.mechanism THEN mech.built ELSE Unset,
         mechanismRet |-> IF behaviour.mechanism THEN mech.ret ELSE NoBuild,
         heap         |-> IF behaviour.mechanism THEN mech.heap ELSE objects]

\* RETURN_IF_ERROR taken in Build: the status goes to the caller, the factory
\* hook has not run.
ReturnError(eps, st, objects, warned) ==
    [epsilon |-> eps, ret |-> st, factory |-> 0, mechanism |-> Unset,
     mechanismRet |-> NoBuild, heap |-> objects, logged |-> warned]

\* Build passing all checks: what the factory hook did and answered.
ReturnBuilt(eps, built, warned) ==
    [epsilon |-> eps, ret |-> built.ret, factory |-> 1,
     mechanism |-> built.mechanism, mechanismRet |-> built.mechanismRet,
     heap |-> built.heap, logged |-> warned]

\* A faulty Build that validates epsilon before it substitutes the default.
Build_ValidatesBeforeDefault(eps, del, l0, linf, mechanism_builder, objects, behaviour) ==
    LET warned   == eps.cls = "unset"
        eps1     == IF warned THEN DefaultEpsilon ELSE eps
        epsCheck == ValidateIsFiniteAndPositive(eps)
        delCheck == ValidateIsInInclusiveInterval(del, Zero, kFullPrivacyBudget,
                                                  "Delta")
        l0Check  == ValidateIsPositive(l0.val, "L0")
        linfCheck == ValidateIsPositive(linf.val, "LInf")
        built    == BuildAlgorithm(eps1, del, l0, linf, mechanism_builder,
                                   objects, behaviour)
    IN  IF epsCheck.code # "OK" THEN ReturnError(eps1, epsCheck, objects, warned)
        ELSE IF del.cls # "unset" /\ delCheck.code # "OK"
        THEN ReturnError(eps1, delCheck, objects, warned)
        ELSE IF l0.cls # "unset" /\ l0Check.code # "OK"
        THEN ReturnError(eps1, l0Check, objects, warned)
        ELSE IF linf.cls # "unset" /\ linfCheck.code # "OK"
        THEN ReturnError(eps1, linfCheck, objects, warned)
        ELSE ReturnBuilt(eps1, built, warned)

\* A faulty Build that validates delta whether or not it is set.
Build_ValidatesUnsetDelta(eps, del, l0, linf, mechanism_builder, objects, behaviour) ==
    LET warned   == eps.cls = "unset"
        eps1     == IF warned THEN DefaultEpsilon ELSE eps
        epsCheck == ValidateIsFiniteAndPositive(eps1)
        delCheck == ValidateIsInInclusiveInterval(del, Zero, kFullPrivacyBudget,
                                                  "Delta")
        l0Check  == ValidateIsPositive(l0.val, "L0")
        linfCheck == ValidateIsPositive(linf.val, "LInf")
        built    == BuildAlgorithm(eps1, del, l0, linf, mechanism_builder,
                                   objects, behaviour)
    IN  IF epsCheck.code # "OK" THEN ReturnError(eps1, epsCheck, objects, warned)
        ELSE IF delCheck.code # "OK"
        THEN ReturnError(eps1, delCheck, objects, warned)
        ELSE IF l0.cls # "unset" /\ l0Check.code # "OK"
        THEN ReturnError(eps1, l0Check, objects, warned)
        ELSE IF linf.cls # "unset" /\ linfCheck.code # "OK"
        THEN ReturnError(eps1, linfCheck, objects, warned)
        ELSE ReturnBuilt(eps1, built, warned)

\* A faulty Build whose second integer check looks at l0_sensitivity_ again.
Build_ChecksL0Twice(eps, del, l0, linf, mechanism_builder, objects, behaviour) ==
    LET warned   == eps.cls = "unset"
        eps1     == IF warned THEN DefaultEpsilon ELSE eps
        epsCheck == ValidateIsFiniteAndPositive(eps1)
        delCheck == ValidateIsInInclusiveInterval(del, Zero, kFullPrivacyBudget,
                                                  "Delta")
        l0Check  == ValidateIsPositive(l0.val, "L0")
        linfCheck == ValidateIsPositive(l0.val, "LInf")
        built    == BuildAlgorithm(eps1, del, l0, linf, mechanism_builder,
                                   objects, behaviour)
    IN  IF epsCheck.code # "OK" THEN ReturnError(eps1, epsCheck, objects, warned)
        ELSE IF del.cls # "unset" /\ delCheck.code # "OK"
        THEN ReturnError(eps1, delCheck, objects, warned)
        ELSE IF l0.cls # "unset" /\ l0Check.code # "OK"
        THEN ReturnError(eps1, l0Check, objects, warned)
        ELSE IF l0.cls # "unset" /\ linfCheck.code # "OK"
        THEN ReturnError(eps1, linfCheck, objects, warned)
        ELSE ReturnBuilt(eps1, built, warned)

\* A faulty Build that runs the factory hook first and validates afterwards.
Build_FactoryBeforeChecks(eps, del, l0, linf, mechanism_builder, objects, behaviour) ==
    LET warned   == eps.cls = "unset"
        eps1     == IF warned THEN DefaultEpsilon ELSE eps
        epsCheck == ValidateIsFiniteAndPositive(eps1)
        delCheck == ValidateIsInInclusiveInterval(del, Zero, kFullPrivacyBudget,
                                                  "Delta")
        l0Check  == ValidateIsPositive(l0.val, "L0")
        linfCheck == ValidateIsPositive(linf.val, "LInf")
        built    == BuildAlgorithm(eps1, del, l0, linf, mechanism_builder,
                                   objects, behaviour)
        ran(st)  == [ReturnBuilt(eps1, built, warned) EXCEPT !.ret = st]
    IN  IF epsCheck.code # "OK" THEN ran(epsCheck)
        ELSE IF del.cls # "unset" /\ delCheck.code # "OK" THEN ran(delCheck)
        ELSE IF l0.cls # "unset" /\ l0Check.code # "OK" THEN ran(l0Check)
        ELSE IF linf.cls # "unset" /\ linfCheck.code # "OK" THEN ran(linfCheck)
        ELSE ReturnBuilt(eps1, built, warned)

\* A faulty Build that uses the default epsilon for its own check only and
\* leaves epsilon_ unset.
Build_DefaultNotStored(eps, del, l0, linf, mechanism_builder, objects, behaviour) ==
    LET warned   == eps.cls = "unset"
        eps1     == IF warned THEN DefaultEpsilon ELSE eps
        epsCheck == ValidateIsFiniteAndPositive(eps1)
        delCheck == ValidateIsInInclusiveInterval(del, Zero, kFullPrivacyBudget,
                                                  "Delta")
        l0Check  == ValidateIsPositive(l0.val, "L0")
        linfCheck == ValidateIsPositive(linf.val, "LInf")
        built    == BuildAlgorithm(eps, del, l0, linf, mechanism_builder,
                                   objects, behaviour)
    IN  IF epsCheck.code # "OK" THEN ReturnError(eps, epsCheck, objects, warned)
        ELSE IF del.cls # "unset" /\ delCheck.code # "OK"
        THEN ReturnError(eps, delCheck, objects, warned)
        ELSE IF l0.cls # "unset" /\ l0Check.code # "OK"
        THEN ReturnError(eps, l0Check, objects, warned)
        ELSE IF linf.cls # "unset" /\ linfCheck.code # "OK"
        THEN ReturnError(eps, linfCheck, objects, warned)
        ELSE ReturnBuilt(eps, built, warned)

\* Build() on a builder with the given fields: the epsilon it leaves in the
\* builder, the status returned, the number of BuildAlgorithm invocations,
\* what the factory's UpdateAndBuildMechanism built and returned, the heap,
\* and whether the default-epsilon warning was logged.
Build(eps, del, l0, linf, mechanism_builder, objects, behaviour) ==
    LET warned   == eps.cls = "unset"
        eps1     == IF warned THEN DefaultEpsilon ELSE eps
        epsCheck == ValidateIsFiniteAndPositive(eps1)
        delCheck == ValidateIsInInclusiveInterval(del, Zero, kFullPrivacyBudget,
                                                  "Delta")
        l0Check  == ValidateIsPositive(l0.val, "L0")
        linfCheck == ValidateIsPositive(linf.val, "LInf")
        built    == BuildAlgorithm(eps1, del, l0, linf, mechanism_builder,
                                   objects, behaviour)
    IN  IF epsCheck.code # "OK" THEN ReturnError(eps1, epsCheck, objects, warned)
        ELSE IF del.cls # "unset" /\ delCheck.code # "OK"
        THEN ReturnError(eps1, delCheck, objects, warned)
        ELSE IF l0.cls # "unset" /\ l0Check.code # "OK"
        THEN ReturnError(eps1, l0Check, objects, warned)
        ELSE IF linf.cls # "unset" /\ linfCheck.code # "OK"
        THEN ReturnError(eps1, linfCheck, objects, warned)
        ELSE ReturnBuilt(eps1, built, warned)

(***************************************************************************)
(* Serialize and Merge.  Both are pure virtual in Algorithm; what a subtype *)
(* does is taken from the library's description of them: the subtype keeps  *)
(* a noise-free statistic of the entries it was given (here their number    *)
(* and their sum), Serialize puts it into a Summary tagged with the         *)
(* algorithm type, and Merge folds a Summary of the same type into the      *)
(* statistic as if its entries had been added directly.                     *)
(***************************************************************************)
\* The instances: A and B ingest entries, C receives their summaries, D
\* ingests every entry given to A or B.
Instances == {"A", "B", "C", "D"}

\* The statistic of an instance that has seen no entry since its last reset.
EmptyStatistic == [count |-> 0, sum |-> 0]

\* AddEntry of the subtype: the entry is folded into the statistic.
FoldEntry(statistic, t) ==
    [count |-> statistic.count + 1, sum |-> statistic.sum + t]

\* Summary protos: the algorithm type and, unless the summary is empty, the
\* data.
EmptySummary == [type |-> "none", has_data |-> FALSE, data |-> EmptyStatistic]

Serialize(statistic) == [type |-> "T", has_data |-> TRUE, data |-> statistic]

\* A summary written by an algorithm of another type.
ForeignSummary == [type |-> "U", has_data |-> TRUE, data |-> FoldEntry(EmptyStatistic, 1)]

\* A faulty Merge that replaces the statistic by the summary's.
Merge_Overwrites(statistic, summary) ==
    IF ~summary.has_data
    THEN [stat |-> statistic, ret |-> InvalidArgumentError("empty")]
    ELSE IF summary.type # "T"
    THEN [stat |-> statistic, ret |-> InvalidArgumentError("type")]
    ELSE [stat |-> summary.data, ret |-> OkStatus(NoValue)]

\* Merge(summary) on an instance of type T with the given statistic.
Merge(statistic, summary) ==
    IF ~summary.has_data
    THEN [stat |-> statistic, ret |-> InvalidArgumentError("empty")]
    ELSE IF summary.type # "T"
    THEN [stat |-> statistic, ret |-> InvalidArgumentError("type")]
    ELSE [stat |-> [count |-> statistic.count + summary.data.count,
                    sum   |-> statistic.sum + summary.data.sum],
          ret  |-> OkStatus(NoValue)]

VARIABLES
    statistics,     \* the statistic each instance holds
    merged,         \* the instances whose summaries C has merged, in order
    mergeReturned   \* what the last Merge returned

mergeVars == << statistics, merged, mergeReturned >>

(***************************************************************************)
(* The public calls on one Algorithm instance.                              *)
(***************************************************************************)
AlgorithmInit ==
    /\ algorithm_epsilon_ = ConstructionEpsilon
    /\ algorithm_delta_ = Zero
    /\ remaining_privacy_budget_fraction_ = kFullPrivacyBudget
    /\ entries = << >>
    /\ lastCall = "none"
    /\ lastItems = << >>
    /\ returned = OkStatus(NoValue)
    /\ hookCalls = << >>
    /\ released = 0
    /\ scenario = 0

CallConsumePrivacyBudget(f) ==
    LET r == ConsumePrivacyBudget(remaining_privacy_budget_fraction_, f)
    IN  /\ remaining_privacy_budget_fraction_' = r.rem
        /\ lastCall' = "ConsumePrivacyBudget"
        /\ lastItems' = << >>
        /\ returned' = r.ret
        /\ hookCalls' = << >>
        /\ released' = released + BudgetReturned(r.ret)
        /\ scenario' = 0
        /\ UNCHANGED << entries, parameterVars, builderVars, mergeVars >>

\* The scenario counter follows PartialResult(0.5), PartialResult(0.6),
\* PartialResult(0.5) issued back to back on an instance with full budget
\* and at least one entry.
ScenarioStep(rem, seen, f) ==
    CASE scenario = 0 /\ rem = kFullPrivacyBudget /\ seen # << >>
                      /\ f = Literal(5, 10)                 -> 1
      [] scenario = 1 /\ f = Literal(6, 10)                 -> 2
      [] scenario = 2 /\ f = Literal(5, 10)                 -> 3
      [] OTHER                                              -> 0

CallPartialResult0(outcome) ==
    LET r == PartialResult0(remaining_privacy_budget_fraction_, entries, outcome)
    IN  /\ remaining_privacy_budget_fraction_' = r.rem
        /\ lastCall' = "PartialResult0"
        /\ lastItems' = << >>
        /\ returned' = r.ret
        /\ hookCalls' = r.calls
        /\ released' = released + BudgetHanded(r.calls)
        /\ scenario' = 0
        /\ UNCHANGED << entries, parameterVars, builderVars, mergeVars >>

CallPartialResult1(f, outcome) ==
    LET r == PartialResult1(remaining_privacy_budget_fraction_, entries, f, outcome)
    IN  /\ remaining_privacy_budget_fraction_' = r.rem
        /\ lastCall' = "PartialResult1"
        /\ lastItems' = << >>
        /\ returned' = r.ret
        /\ hookCalls' = r.calls
        /\ released' = released + BudgetHanded(r.calls)
        /\ scenario' = ScenarioStep(remaining_privacy_budget_fraction_, entries, f)
        /\ UNCHANGED << entries, parameterVars, builderVars, mergeVars >>

CallPartialResult2(f, level, outcome) ==
    LET r == PartialResult2(remaining_privacy_budget_fraction_, entries, f, level,
                            outcome)
    IN  /\ remaining_privacy_budget_fraction_' = r.rem
        /\ lastCall' = "PartialResult2"
        /\ lastItems' = << >>
        /\ returned' = r.ret
        /\ hookCalls' = r.calls
        /\ released' = released + BudgetHanded(r.calls)
        /\ scenario' = 0
        /\ UNCHANGED << entries, parameterVars, builderVars, mergeVars >>

CallReset ==
    LET r == Reset(remaining_privacy_budget_fraction_, entries)
    IN  /\ remaining_privacy_budget_fraction_' = r.rem
        /\ entries' = r.seen
        /\ lastCall' = "Reset"
        /\ lastItems' = << >>
        /\ returned' = OkStatus(NoValue)
        /\ hookCalls' = r.calls
        /\ released' = 0
        /\ scenario' = 0
        /\ UNCHANGED << parameterVars, builderVars, mergeVars >>

CallAddEntry(t) ==
    /\ Len(entries) < MaxEntries
    /\ LET r == AddEntry(entries, t)
       IN  /\ entries' = r.seen
           /\ hookCalls' = r.calls
    /\ lastCall' = "AddEntry"
    /\ lastItems' = << >>
    /\ returned' = OkStatus(NoValue)
    /\ scenario' = 0
    /\ UNCHANGED << remaining_privacy_budget_fraction_, released, parameterVars,
                 builderVars, mergeVars >>

CallAddEntries(items) ==
    /\ Len(entries) + Len(items) <= MaxEntries
    /\ LET r == AddEntries(entries, items)
       IN  /\ entries' = r.seen
           /\ hookCalls' = r.calls
    /\ lastCall' = "AddEntries"
    /\ lastItems' = items
    /\ returned' = OkStatus(NoValue)
    /\ scenario' = 0
    /\ UNCHANGED << remaining_privacy_budget_fraction_, released, parameterVars,
                 builderVars, mergeVars >>

CallResult(items, outcome) ==
    LET r == Result(remaining_privacy_budget_fraction_, entries, items, outcome)
    IN  /\ remaining_privacy_budget_fraction_' = r.rem
        /\ entries' = r.seen
        /\ lastCall' = "Result"
        /\ lastItems' = items
        /\ returned' = r.ret
        /\ hookCalls' = r.calls
        /\ released' = BudgetHanded(r.calls)
        /\ scenario' = 0
        /\ UNCHANGED << parameterVars, builderVars, mergeVars >>

(***************************************************************************)
(* The public calls on one AlgorithmBuilder, and the protected ones its     *)
(* subtype makes.                                                           *)
(***************************************************************************)
BuilderInit ==
    /\ epsilon_ = Unset
    /\ delta_ = Unset
    /\ l0_sensitivity_ = Unset
    /\ max_contributions_per_partition_ = Unset
    /\ LET made == MakeUnique([a \in Addresses |-> Freed], LaplaceMechanismBuilder)
       IN  /\ mechanism_builder_ = made.ptr
           /\ heap = made.heap
    /\ buildReturned = NoBuild
    /\ factoryCalls = 0
    /\ builtMechanism = Unset
    /\ mechanismReturned = NoBuild
    /\ logged = FALSE
    /\ lastSetter = NoSetter
    /\ installedMechanism = LaplaceMechanismBuilder

\* What a call that is not Build leaves in the record of the last Build.
NotBuild ==
    /\ buildReturned' = NoBuild
    /\ factoryCalls' = 0
    /\ logged' = FALSE

AfterSetter(name, arg) ==
    /\ NotBuild
    /\ builtMechanism' = Unset
    /\ mechanismReturned' = NoBuild
    /\ lastSetter' = [name |-> name, arg |-> arg]

\* A faulty SetEpsilon that keeps a value set before.
SetEpsilon_KeepsFirst(epsilon) ==
    /\ epsilon_' = IF epsilon_ = Unset THEN epsilon ELSE epsilon_
    /\ AfterSetter("SetEpsilon", epsilon)
    /\ UNCHANGED << delta_, l0_sensitivity_, max_contributions_per_partition_,
                    mechanism_builder_, heap, installedMechanism, algVars, mergeVars >>

SetEpsilon(epsilon) ==
    /\ epsilon_' = epsilon
    /\ AfterSetter("SetEpsilon", epsilon)
    /\ UNCHANGED << delta_, l0_sensitivity_, max_contributions_per_partition_,
                    mechanism_builder_, heap, installedMechanism, algVars, mergeVars >>

SetDelta(delta) ==
    /\ delta_' = delta
    /\ AfterSetter("SetDelta", delta)
    /\ UNCHANGED << epsilon_, l0_sensitivity_, max_contributions_per_partition_,
                    mechanism_builder_, heap, installedMechanism, algVars, mergeVars >>

SetMaxPartitionsContributed(max_partitions) ==
    /\ l0_sensitivity_' = Some(max_partitions)
    /\ AfterSetter("SetMaxPartitionsContributed", Some(max_partitions))
    /\ UNCHANGED << epsilon_, delta_, max_contributions_per_partition_,
                    mechanism_builder_, heap, installedMechanism, algVars, mergeVars >>

SetMaxContributionsPerPartition(max_contributions) ==
    /\ max_contributions_per_partition_' = Some(max_contributions)
    /\ AfterSetter("SetMaxContributionsPerPartition", Some(max_contributions))
    /\ UNCHANGED << epsilon_, delta_, l0_sensitivity_, mechanism_builder_,
                    heap, installedMechanism, algVars, mergeVars >>

\* The caller makes a mechanism builder and moves it in; the assignment
\* destroys the builder owned before.
SetLaplaceMechanism(configuration) ==
    /\ LET made == MakeUnique(heap, configuration)
       IN  /\ mechanism_builder_' = made.ptr
           /\ heap' = Destroy(made.heap, mechanism_builder_)
    /\ installedMechanism' = configuration
    /\ AfterSetter("SetLaplaceMechanism", Unset)
    /\ UNCHANGED << epsilon_, delta_, l0_sensitivity_,
                    max_contributions_per_partition_, algVars, mergeVars >>

CallBuild(behaviour) ==
    LET r == Build(epsilon_, delta_, l0_sensitivity_,
                   max_contributions_per_partition_, mechanism_builder_, heap,
                   behaviour)
    IN  /\ epsilon_' = r.epsilon
        /\ heap' = r.heap
        /\ buildReturned' = r.ret
        /\ factoryCalls' = r.factory
        /\ builtMechanism' = r.mechanism
        /\ mechanismReturned' = r.mechanismRet
        /\ logged' = r.logged
        /\ lastSetter' = NoSetter
        /\ UNCHANGED << delta_, l0_sensitivity_, max_contributions_per_partition_,
                        mechanism_builder_, installedMechanism, algVars, mergeVars >>

\* The subtype calls the protected UpdateAndBuildMechanism outside Build.
CallUpdateAndBuildMechanism(mechanism_outcome) ==
    LET r == UpdateAndBuildMechanism(epsilon_, delta_, l0_sensitivity_,
                                     max_contributions_per_partition_,
                                     mechanism_builder_, heap, mechanism_outcome)
    IN  /\ heap' = r.heap
        /\ builtMechanism' = r.built
        /\ mechanismReturned' = r.ret
        /\ NotBuild
        /\ lastSetter' = NoSetter
        /\ UNCHANGED << epsilon_, delta_, l0_sensitivity_,
                        max_contributions_per_partition_, mechanism_builder_,
                        installedMechanism, algVars, mergeVars >>

\* The subtype calls the protected GetMechanismBuilderClone, configures the
\* clone it gets and lets it go: the unique_ptr it was returned destroys the
\* clone.
CallGetMechanismBuilderClone ==
    LET r          == GetMechanismBuilderClone(mechanism_builder_, heap)
        configured == [r.heap EXCEPT ![r.ptr] = SubtypeConfiguration]
    IN  /\ heap' = Destroy(configured, r.ptr)
        /\ NotBuild
        /\ builtMechanism' = Unset
        /\ mechanismReturned' = NoBuild
        /\ lastSetter' = NoSetter
        /\ UNCHANGED << epsilon_, delta_, l0_sensitivity_,
                        max_contributions_per_partition_, mechanism_builder_,
                        installedMechanism, algVars, mergeVars >>

(***************************************************************************)
(* Distributed aggregation: A and B ingest disjoint entries, their          *)
(* summaries are merged into the fresh instance C.                          *)
(***************************************************************************)
MergeInit ==
    /\ statistics = [i \in Instances |-> EmptyStatistic]
    /\ merged = << >>
    /\ mergeReturned = OkStatus(NoValue)

\* An entry goes to instance i (A or B) and, as part of the union, to D.
\* Summaries are taken once ingestion is over.
CallAddEntryOn(i, t) ==
    /\ merged = << >>
    /\ statistics[i].count < MaxEntries
    /\ statistics' = [statistics EXCEPT ![i] = FoldEntry(@, t),
                                        !["D"] = FoldEntry(@, t)]
    /\ mergeReturned' = OkStatus(NoValue)
    /\ UNCHANGED << merged, algVars, builderVars >>

\* C.Merge(i.Serialize()) for an instance i not merged yet.
CallMerge(i) ==
    /\ \A k \in 1..Len(merged) : merged[k] # i
    /\ LET r == Merge(statistics["C"], Serialize(statistics[i]))
       IN  /\ statistics' = [statistics EXCEPT !["C"] = r.stat]
           /\ mergeReturned' = r.ret
    /\ merged' = Append(merged, i)
    /\ UNCHANGED << algVars, builderVars >>

\* C.Merge of a summary that is empty or of another algorithm type.
CallMergeUnusable(summary) ==
    /\ LET r == Merge(statistics["C"], summary)
       IN  /\ statistics' = [statistics EXCEPT !["C"] = r.stat]
           /\ mergeReturned' = r.ret
    /\ UNCHANGED << merged, algVars, builderVars >>

vars == << algVars, builderVars, mergeVars >>

Init == AlgorithmInit /\ BuilderInit /\ MergeInit

\* The calls on one Algorithm instance.
Next ==
    \/ \E f \in BudgetArguments : CallConsumePrivacyBudget(f)
    \/ \E outcome \in HookOutcomes : CallPartialResult0(outcome)
    \/ \E f \in BudgetArguments, outcome \in HookOutcomes :
          CallPartialResult1(f, outcome)
    \/ \E f \in BudgetArguments, level \in NoiseIntervalLevels,
          outcome \in HookOutcomes : CallPartialResult2(f, level, outcome)
    \/ CallReset
    \/ \E t \in EntryValues : CallAddEntry(t)
    \/ \E items \in SeqsUpTo(MaxEntries) : CallAddEntries(items)
    \/ \E items \in SeqsUpTo(MaxEntries), outcome \in HookOutcomes :
          CallResult(items, outcome)

Spec == Init /\ [][Next]_vars

\* The calls on one AlgorithmBuilder.
NextBuilder ==
    \/ \E epsilon \in EpsilonArguments : SetEpsilon(epsilon)
    \/ \E delta \in DeltaArguments : SetDelta(delta)
    \/ \E n \in IntArguments : SetMaxPartitionsContributed(n)
    \/ \E n \in IntArguments : SetMaxContributionsPerPartition(n)
    \/ \E mb \in MechanismBuilders : SetLaplaceMechanism(mb)
    \/ \E behaviour \in FactoryBehaviours : CallBuild(behaviour)
    \/ \E outcome \in HookOutcomes : CallUpdateAndBuildMechanism(outcome)
    \/ CallGetMechanismBuilderClone

SpecBuilder == Init /\ [][NextBuilder]_vars

\* The calls of a distributed aggregation.
NextMerge ==
    \/ \E i \in {"A", "B"}, t \in EntryValues : CallAddEntryOn(i, t)
    \/ \E i \in {"A", "B"} : CallMerge(i)
    \/ \E summary \in {EmptySummary, ForeignSummary} : CallMergeUnusable(summary)

SpecMerge == Init /\ [][NextMerge]_vars

(***************************************************************************)
(* Properties of Algorithm, checked under Spec.                             *)
(***************************************************************************)
One == kFullPrivacyBudget.val

\* C1: whatever is called with whatever arguments, the remaining privacy
\* budget fraction is a number r with 0 <= r <= 1.
C1_RemainingWithinUnitInterval ==
    /\ remaining_privacy_budget_fraction_.cls = "finite"
    /\ 0 <= remaining_privacy_budget_fraction_.val
    /\ remaining_privacy_budget_fraction_.val <= One

\* A call passed the budget check and left the instance with part of its
\* budget.
C1_Witness ==
    /\ lastCall = "PartialResult2"
    /\ returned.code = "OK"
    /\ remaining_privacy_budget_fraction_.cls = "finite"
    /\ 0 < remaining_privacy_budget_fraction_.val
    /\ remaining_privacy_budget_fraction_.val < One

\* C2: between two resets the budget fractions handed to GenerateResult sum
\* to at most 1.0, even when the fractions that direct ConsumePrivacyBudget
\* calls returned in the same period are added to the sum.
C2_BudgetNotSpentTwice == released <= One

\* The whole budget has been handed out, the last part of it by a partial
\* result that got less than everything.
C2_Witness ==
    /\ released = One
    /\ lastCall = "PartialResult1"
    /\ Len(hookCalls) = 1
    /\ hookCalls[1].hook = "GenerateResult"
    /\ hookCalls[1].budget.val > 0
    /\ hookCalls[1].budget.val < One

\* C3: ConsumePrivacyBudget(f) returns InvalidArgument whenever f < 0 or
\* f > remaining, and a ConsumePrivacyBudget that fails leaves the remaining
\* fraction as it was.
C3_ConsumeRejects ==
    [][ lastCall' = "ConsumePrivacyBudget" =>
          /\ \A f \in BudgetArguments :
                (/\ CallConsumePrivacyBudget(f)
                 /\ \/ Less(f, Zero)
                    \/ Less(remaining_privacy_budget_fraction_, f))
                => returned'.code = "InvalidArgument"
          /\ returned'.code # "OK" =>
                remaining_privacy_budget_fraction_' =
                    remaining_privacy_budget_fraction_ ]_vars

\* A request above a partly used budget has just been rejected.
C3_Witness ==
    /\ lastCall = "ConsumePrivacyBudget"
    /\ returned = InvalidArgumentError("exceeds")
    /\ remaining_privacy_budget_fraction_ = Literal(5, 10)

\* The claim C4 as worded: a ConsumePrivacyBudget(f) with 0 <= f <=
\* remaining succeeds, takes exactly f off the remaining fraction and returns
\* f.
C4_ConsumeTakesExactlyRequest ==
    [][ lastCall' = "ConsumePrivacyBudget" =>
          \A f \in BudgetArguments :
             (/\ CallConsumePrivacyBudget(f)
              /\ f.cls = "finite"
              /\ 0 <= f.val
              /\ f.val <= remaining_privacy_budget_fraction_.val)
             => /\ returned'.code = "OK"
                /\ returned'.value = f
                /\ remaining_privacy_budget_fraction_'.val =
                      remaining_privacy_budget_fraction_.val - f.val ]_vars

\* C4, amended: a ConsumePrivacyBudget(f) with 0 <= f <= remaining succeeds;
\* the new remaining fraction is remaining - f rounded to the nearest double,
\* and not below 0; the value returned is exactly the amount by which the
\* remaining fraction went down; that amount is f whenever remaining - f is
\* a double, as it is for f = remaining, which leaves 0.
C4_ConsumeTakesRoundedRequest ==
    [][ lastCall' = "ConsumePrivacyBudget" =>
          \A f \in BudgetArguments :
             (/\ CallConsumePrivacyBudget(f)
              /\ f.cls = "finite"
              /\ 0 <= f.val
              /\ f.val <= remaining_privacy_budget_fraction_.val)
             => LET old   == remaining_privacy_budget_fraction_.val
                    new   == remaining_privacy_budget_fraction_'.val
                IN  /\ returned'.code = "OK"
                    /\ remaining_privacy_budget_fraction_'.cls = "finite"
                    /\ new = RoundNearestEven(old - f.val, 1)
                    /\ new >= 0
                    /\ returned'.value = Finite(old - new)
                    /\ IsDouble(old - f.val) => returned'.value = f
                    /\ f.val = old => new = 0 /\ returned'.value = f ]_vars

\* Half of a full budget has just been consumed.
C4_Witness ==
    /\ lastCall = "ConsumePrivacyBudget"
    /\ returned = OkStatus(Literal(5, 10))
    /\ remaining_privacy_budget_fraction_ = Literal(5, 10)

\* C5: Reset, from whatever state, sets the remaining fraction to 1.0 and
\* invokes ResetState, after which no earlier entry is held; a PartialResult
\* right after a Reset runs GenerateResult on no entries.
C5_ResetRestoresFresh ==
    [][ /\ lastCall' = "Reset" =>
             /\ remaining_privacy_budget_fraction_' = Literal(1, 1)
             /\ hookCalls' = << HookResetState >>
             /\ entries' = << >>
        /\ (/\ lastCall = "Reset"
            /\ lastCall' \in {"PartialResult0", "PartialResult1", "PartialResult2"}
            /\ hookCalls' # << >>)
           => hookCalls'[1].seen = << >> ]_vars

\* Reset has just run and left a fresh instance.
C5_Witness ==
    /\ lastCall = "Reset"
    /\ remaining_privacy_budget_fraction_ = Literal(1, 1)
    /\ entries = << >>
    /\ hookCalls = << HookResetState >>

IsPartialResult(call) ==
    call \in {"PartialResult0", "PartialResult1", "PartialResult2"}

\* The claim C6: once the remaining fraction is 0, a PartialResult call, in
\* any of its forms, returns InvalidArgument and produces no result; and of
\* two PartialResult() calls in a row the second fails with the
\* budget-exceeded error.
C6_ExhaustedPartialResultFails ==
    [][ /\ (/\ remaining_privacy_budget_fraction_ = Zero
            /\ IsPartialResult(lastCall'))
           => /\ returned'.code = "InvalidArgument"
              /\ hookCalls' = << >>
        /\ (lastCall = "PartialResult0" /\ lastCall' = "PartialResult0")
           => returned' = InvalidArgumentError("exceeds") ]_vars

\* C7: on an instance with full budget and entries, PartialResult(0.5) passes
\* and leaves 0.5, PartialResult(0.6) is rejected as exceeding the budget and
\* leaves 0.5, PartialResult(0.5) passes and leaves 0.0; and whenever a
\* request has just been rejected as exceeding the budget, a PartialResult(f)
\* with 0 <= f <= remaining passes the budget check and returns what
\* GenerateResult answers.
C7_ScenarioStates ==
    /\ scenario = 1 =>
          /\ remaining_privacy_budget_fraction_ = Literal(5, 10)
          /\ hookCalls = << HookGenerateResult(Literal(5, 10),
                                               kDefaultConfidenceLevel, entries) >>
          /\ returned.why \in {"none", "hook"}
    /\ scenario = 2 =>
          /\ remaining_privacy_budget_fraction_ = Literal(5, 10)
          /\ hookCalls = << >>
          /\ returned = InvalidArgumentError("exceeds")
    /\ scenario = 3 =>
          /\ remaining_privacy_budget_fraction_ = Zero
          /\ hookCalls = << HookGenerateResult(Literal(5, 10),
                                               kDefaultConfidenceLevel, entries) >>
          /\ returned.why \in {"none", "hook"}

C7_RejectionDoesNotBlock ==
    /\ []C7_ScenarioStates
    /\ [][ (/\ returned = InvalidArgumentError("exceeds")
            /\ lastCall' = "PartialResult1")
           => \A f \in BudgetArguments, outcome \in HookOutcomes :
                (/\ CallPartialResult1(f, outcome)
                 /\ f.cls = "finite"
                 /\ 0 <= f.val
                 /\ f.val <= remaining_privacy_budget_fraction_.val)
                => /\ Len(hookCalls') = 1
                   /\ returned' = GenerateResult(hookCalls'[1].budget,
                                                 kDefaultConfidenceLevel,
                                                 entries, outcome) ]_vars

\* The three calls of the scenario have been made and the budget is used up.
C7_Witness ==
    /\ scenario = 3
    /\ lastCall = "PartialResult1"
    /\ returned.code = "OK"
    /\ remaining_privacy_budget_fraction_ = Zero

\* C8: Result(items), from whatever state, ends as Reset(); AddEntries(items);
\* PartialResult() does: ResetState, then one AddEntry per item in order, then
\* GenerateResult once with fraction 1.0, the default level and exactly the
\* items; the remaining fraction is 0, the instance holds exactly the items,
\* and what GenerateResult answers is returned.  Nothing of the state before
\* the call shows.
C8_ResultIsResetAddPartial ==
    [][ lastCall' = "Result" =>
          \E outcome \in HookOutcomes :
             LET n == Len(entries')
             IN  /\ remaining_privacy_budget_fraction_' = Zero
                 /\ released' = One
                 /\ Len(hookCalls') = n + 2
                 /\ hookCalls'[1] = HookResetState
                 /\ \A i \in 1..n : hookCalls'[i + 1] = HookAddEntry(entries'[i])
                 /\ hookCalls'[n + 2] =
                       HookGenerateResult(Literal(1, 1), kDefaultConfidenceLevel,
                                          entries')
                 /\ returned' = GenerateResult(Literal(1, 1),
                                               kDefaultConfidenceLevel, entries',
                                               outcome) ]_vars

\* Result was called with two entries.
C8_Witness ==
    /\ lastCall = "Result"
    /\ entries = << 2, 1 >>
    /\ returned.code = "OK"
    /\ remaining_privacy_budget_fraction_ = Zero

\* C9: PartialResult(f) and PartialResult(f, level) invoke GenerateResult
\* exactly once when the budget check passes, with the fraction
\* ConsumePrivacyBudget returned, which is the amount the remaining fraction
\* went down by, and with level 0.95, respectively the caller's level, and
\* return its answer; when the budget check fails they return its error and
\* do not invoke GenerateResult.
C9_PartialResultHandsConsumed ==
    [][ lastCall' \in {"PartialResult1", "PartialResult2"} =>
          IF returned'.why \in {"negative", "exceeds"}
          THEN /\ hookCalls' = << >>
               /\ returned'.code = "InvalidArgument"
               /\ \E f \in BudgetArguments :
                     returned' = ConsumePrivacyBudget(
                                     remaining_privacy_budget_fraction_, f).ret
          ELSE /\ Len(hookCalls') = 1
               /\ hookCalls'[1].hook = "GenerateResult"
               /\ hookCalls'[1].seen = entries
               /\ hookCalls'[1].budget =
                     Finite(remaining_privacy_budget_fraction_.val
                            - remaining_privacy_budget_fraction_'.val)
               /\ \E f \in BudgetArguments :
                     hookCalls'[1].budget = ConsumePrivacyBudget(
                         remaining_privacy_budget_fraction_, f).ret.value
               /\ lastCall' = "PartialResult1" =>
                     hookCalls'[1].level = kDefaultConfidenceLevel
               /\ lastCall' = "PartialResult2" =>
                     hookCalls'[1].level \in NoiseIntervalLevels
               /\ \E outcome \in HookOutcomes :
                     returned' = GenerateResult(hookCalls'[1].budget,
                                                hookCalls'[1].level, entries,
                                                outcome) ]_vars

\* The two-argument form has handed the hook a quarter of the budget and the
\* caller's level.
C9_Witness ==
    /\ lastCall = "PartialResult2"
    /\ hookCalls = << HookGenerateResult(Literal(1, 4), 50, entries) >>
    /\ returned.code = "OK"

\* C16: AddEntry and AddEntries leave the remaining budget fraction, epsilon
\* and delta as they were; AddEntries invokes the AddEntry hook once for
\* each element of its range, in the order of the range, and nothing else.
C16_AddEntriesFrame ==
    [][ lastCall' \in {"AddEntry", "AddEntries"} =>
          /\ remaining_privacy_budget_fraction_' = remaining_privacy_budget_fraction_
          /\ algorithm_epsilon_' = algorithm_epsilon_
          /\ algorithm_delta_' = algorithm_delta_
          /\ lastCall' = "AddEntries"
             => /\ Len(hookCalls') = Len(lastItems')
                /\ \A k \in 1..Len(lastItems') :
                      hookCalls'[k] = HookAddEntry(lastItems'[k])
                /\ entries' = entries \o lastItems' ]_vars

\* AddEntries was given two different entries on an instance that had spent
\* a part of its budget.
C16_Witness ==
    /\ lastCall = "AddEntries"
    /\ lastItems = << 2, 1 >>
    /\ hookCalls = << HookAddEntry(2), HookAddEntry(1) >>
    /\ remaining_privacy_budget_fraction_ = Literal(1, 2)

\* C19: when a PartialResult call passes the budget check and the
\* GenerateResult hook fails, the caller gets the hook's error as it is, and
\* the remaining fraction is the decreased one: what was handed to the hook
\* stays spent.
C19_FailedGenerationSpendsBudget ==
    [][ (IsPartialResult(lastCall') /\ hookCalls' # << >> /\ returned'.code # "OK")
        => /\ returned' = [code |-> "Internal", why |-> "hook", value |-> NoValue]
           /\ hookCalls'[1].budget.cls = "finite"
           /\ remaining_privacy_budget_fraction_'.val
                = remaining_privacy_budget_fraction_.val - hookCalls'[1].budget.val
           /\ released' = released + hookCalls'[1].budget.val
           /\ Less(Zero, hookCalls'[1].budget)
              => Less(remaining_privacy_budget_fraction_',
                      remaining_privacy_budget_fraction_) ]_vars

\* PartialResult(0.5) on a full budget: the hook failed, half of the budget
\* is gone.
C19_Witness ==
    /\ lastCall = "PartialResult1"
    /\ returned = [code |-> "Internal", why |-> "hook", value |-> NoValue]
    /\ hookCalls # << >>
    /\ hookCalls[1].budget = Literal(1, 2)
    /\ remaining_privacy_budget_fraction_ = Literal(1, 2)
    /\ released = Literal(1, 2).val

(***************************************************************************)
(* Properties of AlgorithmBuilder, checked under SpecBuilder.               *)
(***************************************************************************)
IsBuild(ret) == ret # NoBuild

\* C10: Build returns InvalidArgument, without invoking the factory, when
\* epsilon is set to 0, to a negative value or to +infinity; when epsilon was
\* never set, Build puts the default epsilon in its place and the epsilon
\* check passes: the factory is invoked and its answer returned unless one
\* of the other parameters is rejected.
C10_BuildValidatesEpsilon ==
    [][ IsBuild(buildReturned') =>
          /\ (\/ epsilon_ = Zero
              \/ Less(epsilon_, Zero)
              \/ epsilon_ = PosInf)
             => /\ buildReturned' = InvalidArgumentError("Epsilon")
                /\ factoryCalls' = 0
          /\ epsilon_ = Unset
             => /\ epsilon_' = DefaultEpsilon
                /\ buildReturned'.why # "Epsilon"
                /\ buildReturned'.why \in {"none", "factory"} <=> factoryCalls' = 1
                /\ (/\ delta_ = Unset
                    /\ l0_sensitivity_ = Unset
                    /\ max_contributions_per_partition_ = Unset)
                   => factoryCalls' = 1 ]_vars

\* Build has succeeded on a builder whose epsilon is the default: no setter
\* passes that value, so it was substituted.
C10_Witness ==
    /\ epsilon_ = DefaultEpsilon
    /\ buildReturned.code = "OK"
    /\ factoryCalls = 1

\* A Build step whose checks before the delta check pass.
EpsilonPasses == epsilon_ = Unset \/ (epsilon_.cls = "finite" /\ epsilon_.val > 0)

\* C11: Build returns InvalidArgument, without invoking the factory, when
\* delta is set to a value below 0 or above 1 (the delta error whenever the
\* epsilon check passes); a set delta in [0,1], the endpoints 0 and 1
\* included, passes the delta check; an unset delta passes it as well and is
\* still unset after Build.
C11_BuildValidatesDelta ==
    [][ IsBuild(buildReturned') =>
          /\ delta_' = delta_
          /\ (Less(delta_, Zero) \/ Less(kFullPrivacyBudget, delta_))
             => /\ buildReturned'.code = "InvalidArgument"
                /\ factoryCalls' = 0
                /\ EpsilonPasses => buildReturned' = InvalidArgumentError("Delta")
          /\ (/\ delta_.cls = "finite"
              /\ ~Less(delta_, Zero)
              /\ ~Less(kFullPrivacyBudget, delta_))
             => buildReturned'.why # "Delta"
          /\ delta_ = Unset => buildReturned'.why # "Delta" ]_vars

\* Build has succeeded with delta at the endpoint 1.
C11_Witness ==
    /\ delta_ = kFullPrivacyBudget
    /\ buildReturned.code = "OK"
    /\ factoryCalls = 1

\* A Build step whose checks before the integer checks pass.
DeltaPasses ==
    \/ delta_ = Unset
    \/ /\ delta_.cls = "finite"
       /\ ~Less(delta_, Zero)
       /\ ~Less(kFullPrivacyBudget, delta_)

\* C12: Build returns InvalidArgument, without invoking the factory, when
\* max_partitions_contributed or max_contributions_per_partition is set to
\* zero or a negative integer (the error of that check when the checks
\* before it pass); a positive value passes its check, and an unset
\* parameter is not checked.
C12_BuildValidatesContributionBounds ==
    [][ IsBuild(buildReturned') =>
          /\ (l0_sensitivity_ # Unset /\ l0_sensitivity_.val <= 0)
             => /\ buildReturned'.code = "InvalidArgument"
                /\ factoryCalls' = 0
                /\ (EpsilonPasses /\ DeltaPasses)
                   => buildReturned' = InvalidArgumentError("L0")
          /\ (max_contributions_per_partition_ # Unset
                /\ max_contributions_per_partition_.val <= 0)
             => /\ buildReturned'.code = "InvalidArgument"
                /\ factoryCalls' = 0
                /\ (/\ EpsilonPasses
                    /\ DeltaPasses
                    /\ (l0_sensitivity_ = Unset \/ l0_sensitivity_.val > 0))
                   => buildReturned' = InvalidArgumentError("LInf")
          /\ (l0_sensitivity_ = Unset \/ l0_sensitivity_.val > 0)
             => buildReturned'.why # "L0"
          /\ (max_contributions_per_partition_ = Unset
                \/ max_contributions_per_partition_.val > 0)
             => buildReturned'.why # "LInf" ]_vars

\* Build has rejected a zero max_contributions_per_partition on a builder
\* whose max_partitions_contributed was never set.
C12_Witness ==
    /\ l0_sensitivity_ = Unset
    /\ max_contributions_per_partition_ = Some(0)
    /\ buildReturned = InvalidArgumentError("LInf")

\* A step in which UpdateAndBuildMechanism ran, inside Build or on its own.
IsUpdateAndBuildMechanism(ret) == ret # NoBuild

\* C13: the mechanism builder that UpdateAndBuildMechanism builds from has
\* the builder's epsilon and delta where these are set and the values of the
\* cloned mechanism builder where they are not, L0 sensitivity
\* max_partitions_contributed or else 1, and L-infinity sensitivity
\* max_contributions_per_partition or else 1; what its Build answers,
\* success or error, is what UpdateAndBuildMechanism returns.
C13_MechanismConfiguration ==
    [][ IsUpdateAndBuildMechanism(mechanismReturned') =>
          /\ builtMechanism' =
               [epsilon |-> IF epsilon_' # Unset THEN epsilon_'
                            ELSE heap[mechanism_builder_].epsilon,
                delta   |-> IF delta_ # Unset THEN delta_
                            ELSE heap[mechanism_builder_].delta,
                l0      |-> IF l0_sensitivity_ # Unset THEN l0_sensitivity_
                            ELSE Some(1),
                linf    |-> IF max_contributions_per_partition_ # Unset
                            THEN max_contributions_per_partition_
                            ELSE Some(1)]
          /\ \E outcome \in HookOutcomes :
                mechanismReturned' = MechanismBuild(builtMechanism', outcome) ]_vars

\* A mechanism was built with max_partitions_contributed 2, the default 1
\* for the unset max_contributions_per_partition, and the delta of the
\* caller's mechanism builder.
C13_Witness ==
    /\ mechanismReturned.code = "OK"
    /\ max_contributions_per_partition_ = Unset
    /\ delta_ = Unset
    /\ builtMechanism.l0 = Some(2)
    /\ builtMechanism.linf = Some(1)
    /\ builtMechanism.delta = Literal(5, 10)

\* The owned mechanism builder is configured as it was installed.
C14_OwnedAsInstalled == heap[mechanism_builder_] = installedMechanism

\* C14: the owned mechanism builder always has the configuration it was
\* given by the last SetLaplaceMechanism (or that of the default builder):
\* UpdateAndBuildMechanism and GetMechanismBuilderClone work on clones.
\* What one build configures does not reach a later one: every mechanism is
\* built from the installed configuration and the builder's current fields.
C14_OwnedMechanismBuilderUntouched ==
    /\ []C14_OwnedAsInstalled
    /\ [][ IsUpdateAndBuildMechanism(mechanismReturned') =>
             /\ builtMechanism'.epsilon =
                  IF epsilon_' # Unset THEN epsilon_'
                  ELSE installedMechanism.epsilon
             /\ builtMechanism'.delta =
                  IF delta_ # Unset THEN delta_ ELSE installedMechanism.delta
             /\ heap'[mechanism_builder_] = heap[mechanism_builder_] ]_vars

\* A mechanism was built with sensitivities 1 and 1 from the default
\* mechanism builder, whose own sensitivities are still unset.
C14_Witness ==
    /\ mechanismReturned # NoBuild
    /\ builtMechanism.l0 = Some(1)
    /\ builtMechanism.linf = Some(1)
    /\ heap[mechanism_builder_] = LaplaceMechanismBuilder

\* Whether the integer parameters pass their checks in Build.
L0Passes == l0_sensitivity_ = Unset \/ l0_sensitivity_.val > 0

LInfPasses ==
    \/ max_contributions_per_partition_ = Unset
    \/ max_contributions_per_partition_.val > 0

\* C17: a setter puts its argument in place of whatever its parameter held
\* and leaves the other parameters as they are, so Build sees the value set
\* last for each parameter: it fails on a parameter whose current value is
\* invalid and does not fail on account of values that were overwritten.
C17_SettersOverwrite ==
    [][ /\ lastSetter'.name = "SetEpsilon"
           => /\ epsilon_' = lastSetter'.arg
              /\ UNCHANGED << delta_, l0_sensitivity_,
                              max_contributions_per_partition_,
                              mechanism_builder_, heap >>
        /\ lastSetter'.name = "SetDelta"
           => /\ delta_' = lastSetter'.arg
              /\ UNCHANGED << epsilon_, l0_sensitivity_,
                              max_contributions_per_partition_,
                              mechanism_builder_, heap >>
        /\ lastSetter'.name = "SetMaxPartitionsContributed"
           => /\ l0_sensitivity_' = lastSetter'.arg
              /\ UNCHANGED << epsilon_, delta_,
                              max_contributions_per_partition_,
                              mechanism_builder_, heap >>
        /\ lastSetter'.name = "SetMaxContributionsPerPartition"
           => /\ max_contributions_per_partition_' = lastSetter'.arg
              /\ UNCHANGED << epsilon_, delta_, l0_sensitivity_,
                              mechanism_builder_, heap >>
        /\ lastSetter'.name = "SetLaplaceMechanism"
           => /\ heap'[mechanism_builder_'] = installedMechanism'
              /\ UNCHANGED << epsilon_, delta_, l0_sensitivity_,
                              max_contributions_per_partition_ >>
        /\ IsBuild(buildReturned')
           => (buildReturned'.code = "InvalidArgument"
                 <=> ~(EpsilonPasses /\ DeltaPasses /\ L0Passes /\ LInfPasses))
      ]_vars

\* SetEpsilon has just put 0.5 into a builder whose other parameters were
\* set before and are still there.
C17_Witness ==
    /\ lastSetter = [name |-> "SetEpsilon", arg |-> Literal(5, 10)]
    /\ epsilon_ = Literal(5, 10)
    /\ delta_ = Zero
    /\ l0_sensitivity_ = Some(2)
    /\ max_contributions_per_partition_ = Some(0)

\* The check of Build that fails first for the builder's fields, "none" if
\* all pass.
FirstFailingCheck ==
    CASE ~EpsilonPasses -> "Epsilon"
      [] EpsilonPasses /\ ~DeltaPasses -> "Delta"
      [] EpsilonPasses /\ DeltaPasses /\ ~L0Passes -> "L0"
      [] EpsilonPasses /\ DeltaPasses /\ L0Passes /\ ~LInfPasses -> "LInf"
      [] OTHER -> "none"

\* C18: Build invokes the factory hook BuildAlgorithm exactly when the
\* epsilon, delta, max_partitions_contributed and
\* max_contributions_per_partition checks all pass; otherwise it returns the
\* error of the first check, in that order, that fails, and the hook does
\* not run (no algorithm, no mechanism is built); when the hook runs, Build
\* returns what the hook answers.
C18_FactoryAfterChecks ==
    [][ IsBuild(buildReturned') =>
          IF FirstFailingCheck = "none"
          THEN /\ factoryCalls' = 1
               /\ buildReturned' \in
                    { OkStatus([cls |-> "algorithm", val |-> 0]),
                      [code |-> "Internal", why |-> "factory", value |-> NoValue] }
          ELSE /\ factoryCalls' = 0
               /\ buildReturned' = InvalidArgumentError(FirstFailingCheck)
               /\ builtMechanism' = Unset
               /\ mechanismReturned' = NoBuild
               /\ heap' = heap ]_vars

\* Build has returned the delta error for a builder whose delta and
\* max_partitions_contributed are both invalid.
C18_Witness ==
    /\ delta_ = Finite(-1)
    /\ l0_sensitivity_ = Some(0)
    /\ buildReturned = InvalidArgumentError("Delta")
    /\ factoryCalls = 0

\* C20: Build on a builder whose epsilon is unset stores the default epsilon
\* in the builder (and logs the warning); epsilon then stays set, a
\* mechanism built during or after that Build gets that epsilon, and a later
\* Build finds epsilon set: it neither substitutes nor logs.  Build changes
\* no other parameter.
C20_BuildStoresDefaultEpsilon ==
    [][ /\ IsBuild(buildReturned')
           => /\ epsilon_ = Unset => (epsilon_' = DefaultEpsilon /\ logged')
              /\ epsilon_ # Unset => (epsilon_' = epsilon_ /\ ~logged')
              /\ UNCHANGED << delta_, l0_sensitivity_,
                              max_contributions_per_partition_,
                              mechanism_builder_ >>
              /\ heap'[mechanism_builder_] = heap[mechanism_builder_]
        /\ epsilon_ # Unset => epsilon_' # Unset
        /\ (IsUpdateAndBuildMechanism(mechanismReturned') /\ epsilon_' # Unset)
           => builtMechanism'.epsilon = epsilon_' ]_vars

\* A second Build on a builder that holds the default epsilon: no warning,
\* and the mechanism its factory built has the default epsilon.
C20_Witness ==
    /\ epsilon_ = DefaultEpsilon
    /\ IsBuild(buildReturned)
    /\ ~logged
    /\ builtMechanism # Unset
    /\ builtMechanism.epsilon = DefaultEpsilon

(***************************************************************************)
(* Properties of Serialize and Merge, checked under SpecMerge.              *)
(***************************************************************************)
\* C15: once the summaries of A and of B have both been merged into the
\* fresh instance C, in either order, the noise-free statistic of C is that
\* of D, which ingested the entries of A and of B directly.
C15_MergeEqualsUnion ==
    Len(merged) = 2 => statistics["C"] = statistics["D"]

\* C has merged B's summary first and A's second, with three entries or
\* more between them.
C15_Witness ==
    /\ merged = << "B", "A" >>
    /\ statistics["A"].count > 0
    /\ statistics["C"].count >= 3
    /\ mergeReturned.code = "OK"

=============================================================================
